---- MODULE Spec2Model ----
(***************************************************************************)
(* Model of blacklist-email.py: the normalisation of raw list lines into   *)
(* domains, the allowlist filter, one refresh cycle (process_sources) and  *)
(* the monitoring loop around it (monitor_sources).                        *)
(*                                                                         *)
(* A Python str is modelled as a sequence of one-character strings, a      *)
(* Set[str] as a set of such sequences, and the output file as the         *)
(* sequence of its lines (each line without its terminating newline).      *)
(***************************************************************************)
EXTENDS Naturals, Integers, Sequences, FiniteSets, TLC

(***************************************************************************)
(* Bounds of the model.                                                    *)
(***************************************************************************)
\* longest raw entry given to normalize_domain in SpecNorm
MaxLen == 4
\* most lines one HTTP response delivers before it ends or fails
MaxResp == 1
\* most lines of the output file that exists before the first cycle
MaxInitLines == 2
\* number of refresh cycles monitor_sources is followed for
MaxCycles == 2
\* most blanks put before, and after, an entry in SpecCanon
MaxPad == 1
\* most sub-domain labels put before a domain in SpecCanon
MaxSub == 1

(***************************************************************************)
(* Characters.                                                             *)
(***************************************************************************)
\* the characters raw entries are built from
Alphabet == {" ", "#", ".", "@", "A", "a", "b"}

\* str.lower() on one character
Lower(c) == IF c = "A" THEN "a" ELSE c

\* the characters str.strip() removes
IsSpace(c) == c = " "

\* code point of a character: the order sorted() compares str by
Ord(c) ==
    CASE c = " " -> 32
      [] c = "#" -> 35
      [] c = "." -> 46
      [] c = "@" -> 64
      [] c = "A" -> 65
      [] c = "a" -> 97
      [] c = "b" -> 98

(***************************************************************************)
(* str helpers used by normalize_domain.                                   *)
(***************************************************************************)
RECURSIVE LStrip(_)
LStrip(s) ==
    IF s = <<>> THEN <<>>
    ELSE IF IsSpace(Head(s)) THEN LStrip(Tail(s)) ELSE s

RECURSIVE RStrip(_)
RStrip(s) ==
    IF s = <<>> THEN <<>>
    ELSE IF IsSpace(s[Len(s)]) THEN RStrip(SubSeq(s, 1, Len(s) - 1)) ELSE s

\* s.strip()
Strip(s) == RStrip(LStrip(s))

\* c in s
Contains(s, c) == \E i \in 1..Len(s) : s[i] = c

\* index of the first occurrence of c in s (c occurs in s)
FirstIndex(s, c) == CHOOSE i \in 1..Len(s) : s[i] = c /\ \A j \in 1..(i - 1) : s[j] # c

\* s.split(c, 1)[0]
BeforeFirst(s, c) == SubSeq(s, 1, FirstIndex(s, c) - 1)

\* s.split(c, 1)[1]
AfterFirst(s, c) == SubSeq(s, FirstIndex(s, c) + 1, Len(s))

\* s.replace("## ", ""): every non-overlapping occurrence, left to right
RECURSIVE RemoveMarker(_)
RemoveMarker(s) ==
    IF s = <<>> THEN <<>>
    ELSE IF Len(s) >= 3 /\ SubSeq(s, 1, 3) = <<"#", "#", " ">>
         THEN RemoveMarker(SubSeq(s, 4, Len(s)))
         ELSE <<Head(s)>> \o RemoveMarker(Tail(s))

\* s.split("."): the sequence of segments, empty ones included
RECURSIVE SplitDots(_)
SplitDots(s) ==
    IF Contains(s, ".")
    THEN <<BeforeFirst(s, ".")>> \o SplitDots(AfterFirst(s, "."))
    ELSE <<s>>

\* [segment for segment in segs if segment]
RECURSIVE NonEmptySegments(_)
NonEmptySegments(segs) ==
    IF segs = <<>> THEN <<>>
    ELSE IF Head(segs) = <<>> THEN NonEmptySegments(Tail(segs))
         ELSE <<Head(segs)>> \o NonEmptySegments(Tail(segs))

\* ".".join(segs)
RECURSIVE JoinDots(_)
JoinDots(segs) ==
    IF segs = <<>> THEN <<>>
    ELSE IF Len(segs) = 1 THEN Head(segs)
         ELSE Head(segs) \o <<".">> \o JoinDots(Tail(segs))

\* s.lower()
LowerStr(s) == [i \in 1..Len(s) |-> Lower(s[i])]

(***************************************************************************)
(* normalize_domain                                                        *)
(***************************************************************************)
\* CleanLabels with parts[:2] written for parts[-2:]
CleanLabelsFirstTwo(domain) ==
    LET cleaned == JoinDots(NonEmptySegments(SplitDots(domain)))
        parts == SplitDots(cleaned)
    IN  IF cleaned = <<>> THEN <<>>
        ELSE IF Len(parts) > 2
             THEN LowerStr(JoinDots(SubSeq(parts, 1, 2)))
             ELSE LowerStr(cleaned)

\* the last step of normalize_domain: drop empty segments, keep the last two
\* labels, lowercase
CleanLabels(domain) ==
    LET cleaned == JoinDots(NonEmptySegments(SplitDots(domain)))
        parts == SplitDots(cleaned)
    IN  IF cleaned = <<>> THEN <<>>
        ELSE IF Len(parts) > 2
             THEN LowerStr(JoinDots(SubSeq(parts, Len(parts) - 1, Len(parts))))
             ELSE LowerStr(cleaned)

\* the part of normalize_domain after the comment handling
HostPart(domain) ==
    IF domain = <<>> THEN <<>>
    ELSE IF Contains(domain, "@") THEN CleanLabels(AfterFirst(domain, "@"))
         ELSE CleanLabels(domain)

normalize_domain(entry_) ==
    LET stripped == Strip(entry_)
        unmarked == RemoveMarker(stripped)
    IN  IF stripped = <<>> THEN <<>>
        ELSE IF unmarked # <<>> /\ Head(unmarked) = "#" THEN <<>>
        ELSE IF Contains(unmarked, "#")
             THEN HostPart(Strip(BeforeFirst(unmarked, "#")))
             ELSE HostPart(unmarked)

(***************************************************************************)
(* Sets of domains, the file and the allowlist filter.                     *)
(***************************************************************************)
\* s < t in the order Python compares str: by code point, a proper prefix first
RECURSIVE StrLess(_, _)
StrLess(s, t) ==
    IF t = <<>> THEN FALSE
    ELSE IF s = <<>> THEN TRUE
    ELSE IF Head(s) = Head(t) THEN StrLess(Tail(s), Tail(t))
         ELSE Ord(Head(s)) < Ord(Head(t))

\* sorted(S) for a set of str
RECURSIVE Sorted(_)
Sorted(S) ==
    IF S = {} THEN <<>>
    ELSE LET least == CHOOSE x \in S : \A y \in S \ {x} : StrLess(x, y)
         IN  <<least>> \o Sorted(S \ {least})

\* the loop shared by load_existing_domains and fetch_domains_from_url:
\* domains after one more line was read
AddLine(acc, line) ==
    LET domain == normalize_domain(line)
    IN  IF domain # <<>> THEN acc \cup {domain} ELSE acc

\* the set load_existing_domains builds from the lines of an existing file
RECURSIVE LoadLines(_)
LoadLines(lines) ==
    IF lines = <<>> THEN {}
    ELSE AddLine(LoadLines(SubSeq(lines, 1, Len(lines) - 1)), lines[Len(lines)])

load_existing_domains(exists, lines) ==
    IF exists THEN LoadLines(lines) ELSE {}

\* apply_allowlist without its fast path and with & written for -
apply_allowlist_intersect(doms, allowlist) ==
    LET filtered == doms \cap allowlist
    IN  <<filtered, Cardinality(doms) - Cardinality(filtered)>>

\* the pair (filtered set, removal count)
apply_allowlist(doms, allowlist) ==
    IF doms = {} \/ allowlist = {}
    THEN <<doms, 0>>
    ELSE LET filtered == doms \ allowlist
         IN  <<filtered, Cardinality(doms) - Cardinality(filtered)>>

(***************************************************************************)
(* Inputs of the cycle model.                                              *)
(***************************************************************************)
\* len(SOURCE_URLS)
NumSources == 4

\* the raw lines a response or a file found before the first cycle is made of:
\* a.  "a"     a canonical domain
\* b.  "A"     the same domain in upper case
\* c.  "b"     a second domain
\* d.  "@ a"   an address whose host part starts with a blank
RawLines == {<<"a">>, <<"A">>, <<"b">>, <<"@", " ", "a">>}

\* sequences over S of length at most n
RECURSIVE SeqsUpTo(_, _)
SeqsUpTo(S, n) ==
    IF n = 0 THEN {<<>>}
    ELSE LET shorter == SeqsUpTo(S, n - 1)
         IN  shorter \cup {Append(q, x) : q \in shorter, x \in S}

(***************************************************************************)
(* State.                                                                  *)
(***************************************************************************)
VARIABLES
    file_exists,        \* os.path.exists(output_path)
    file,               \* the lines of the output file
    pc,                 \* where monitor_sources / process_sources stands
    cycle,              \* number of the current call of process_sources
    persisted_domains,  \* locals of process_sources
    allowlist_domains,
    sanitized_existing,
    removed_existing,
    fetched_domains,    \* `aggregated` of fetch_multiple_sources
    filtered_fetched,
    skipped,
    new_domains,
    final_domains,
    url_idx,            \* 0: ALLOWLIST_URL, i >= 1: the i-th of SOURCE_URLS
    domains,            \* `domains` of the running fetch_domains_from_url
    nread,              \* lines the running fetch has read
    failed,             \* the running fetch ended in its except clause
    to_write,           \* lines write_domains has still to write
    wrote,              \* write_domains was called in this cycle
    ret,                \* value the last process_sources returned
    start_exists,       \* file_exists and file when the cycle started
    start_file,
    prev_allow,         \* SpecTwice: allowlist_domains and fetched_domains
    prev_fetched,       \*   of the previous cycle, when it returned
    logged,             \* the messages log() printed in this cycle
    storage_failed,     \* "read" or "write" once open/write raised OSError
    nreads,             \* calls of load_existing_domains in this cycle
    nwrites,            \* calls of write_domains that opened the file
    fetches_done,       \* calls of fetch_domains_from_url that returned
    entry,              \* normaliser alone: the raw entry and its result
    result,
    normalized,
    base                \* SpecCanon: the two-label domain entry was formed from

cvars == <<file_exists, file, pc, cycle, persisted_domains, allowlist_domains,
           sanitized_existing, removed_existing, fetched_domains,
           filtered_fetched, skipped, new_domains, final_domains, url_idx,
           domains, nread, failed, to_write, wrote, ret, start_exists,
           start_file, prev_allow, prev_fetched, logged, storage_failed,
           nreads, nwrites, fetches_done>>

nvars == <<entry, result, normalized, base>>

vars == <<cvars, nvars>>

locals == <<persisted_domains, allowlist_domains, sanitized_existing,
            removed_existing, fetched_domains, filtered_fetched, skipped,
            new_domains, final_domains>>

fetchvars == <<url_idx, domains, nread, failed>>

history == <<start_exists, start_file, prev_allow, prev_fetched>>

aux == <<logged, storage_failed, nreads, nwrites, fetches_done>>

LocalsInit ==
    /\ persisted_domains = {}
    /\ allowlist_domains = {}
    /\ sanitized_existing = {}
    /\ removed_existing = 0
    /\ fetched_domains = {}
    /\ filtered_fetched = {}
    /\ skipped = 0
    /\ new_domains = {}
    /\ final_domains = {}
    /\ url_idx = 0
    /\ domains = {}
    /\ nread = 0
    /\ failed = FALSE
    /\ to_write = <<>>
    /\ wrote = FALSE
    /\ ret = 0
    /\ logged = {}
    /\ storage_failed = "none"
    /\ nreads = 0
    /\ nwrites = 0
    /\ fetches_done = 0

NormIdle ==
    /\ entry = <<>>
    /\ result = <<>>
    /\ normalized = FALSE
    /\ base = <<>>

\* the program starts with no output file or with one of any content
Init ==
    /\ file_exists \in BOOLEAN
    /\ file \in SeqsUpTo(RawLines, MaxInitLines)
    /\ ~file_exists => file = <<>>
    /\ pc = "start"
    /\ cycle = 1
    /\ LocalsInit
    /\ start_exists = file_exists
    /\ start_file = file
    /\ prev_allow = {}
    /\ prev_fetched = {}
    /\ NormIdle

(***************************************************************************)
(* process_sources, step by step.                                          *)
(***************************************************************************)
\* line 105: load_existing_domains(output_path)
Load ==
    /\ pc = "start"
    /\ persisted_domains' = load_existing_domains(file_exists, file)
    /\ nreads' = nreads + 1
    /\ pc' = "fetch"
    /\ UNCHANGED <<file_exists, file, cycle, allowlist_domains,
                   sanitized_existing, removed_existing, fetched_domains,
                   filtered_fetched, skipped, new_domains, final_domains,
                   fetchvars, to_write, wrote, ret, history, logged,
                   storage_failed, nwrites, fetches_done, nvars>>

\* ReadFail with the OSError caught and passed over: the cycle goes on with
\* an empty persisted set
ReadFailSwallowed ==
    /\ pc = "start"
    /\ file_exists
    /\ storage_failed' = "read"
    /\ nreads' = nreads + 1
    /\ persisted_domains' = {}
    /\ pc' = "fetch"
    /\ UNCHANGED <<file_exists, file, cycle, allowlist_domains,
                   sanitized_existing, removed_existing, fetched_domains,
                   filtered_fetched, skipped, new_domains, final_domains,
                   fetchvars, to_write, wrote, ret, history, logged, nwrites,
                   fetches_done, nvars>>

\* line 57: open() of an existing file raises OSError; nothing catches it, not
\* process_sources, not monitor_sources, not the main block
ReadFail ==
    /\ pc = "start"
    /\ file_exists
    /\ storage_failed' = "read"
    /\ nreads' = nreads + 1
    /\ pc' = "crashed"
    /\ UNCHANGED <<file_exists, file, cycle, locals, fetchvars, to_write,
                   wrote, ret, history, logged, nwrites, fetches_done, nvars>>

\* lines 70-73: the response delivers one more line
FetchLine ==
    /\ pc = "fetch"
    /\ nread < MaxResp
    /\ \E raw_line \in RawLines : domains' = AddLine(domains, raw_line)
    /\ nread' = nread + 1
    /\ UNCHANGED <<file_exists, file, pc, cycle, locals, url_idx, failed,
                   to_write, wrote, ret, history, aux, nvars>>

\* the response ends: fetch_domains_from_url returns `domains`
FetchEnd ==
    /\ pc = "fetch"
    /\ pc' = "fetch_return"
    /\ failed' = FALSE
    /\ UNCHANGED <<file_exists, file, cycle, locals, url_idx, domains, nread,
                   to_write, wrote, ret, history, aux, nvars>>

\* lines 74-76: urlopen or the iteration raises HTTPError, URLError or OSError;
\* the warning is logged and `domains` is returned as it stands
FetchFail ==
    /\ pc = "fetch"
    /\ pc' = "fetch_return"
    /\ failed' = TRUE
    /\ UNCHANGED <<file_exists, file, cycle, locals, url_idx, domains, nread,
                   to_write, wrote, ret, history, aux, nvars>>

\* lines 107-113: the allowlist fetch returned; filter the persisted set
ReturnAllowlist ==
    /\ pc = "fetch_return"
    /\ url_idx = 0
    /\ allowlist_domains' = domains
    /\ sanitized_existing' = apply_allowlist(persisted_domains, domains)[1]
    /\ removed_existing' = apply_allowlist(persisted_domains, domains)[2]
    /\ logged' = logged
                 \cup (IF domains = {} THEN {"allowlist_empty"} ELSE {})
                 \cup (IF removed_existing' # 0 THEN {"removed"} ELSE {})
    /\ fetches_done' = fetches_done + 1
    /\ url_idx' = 1
    /\ domains' = {}
    /\ nread' = 0
    /\ failed' = FALSE
    /\ pc' = "fetch"
    /\ UNCHANGED <<file_exists, file, cycle, persisted_domains,
                   fetched_domains, filtered_fetched, skipped, new_domains,
                   final_domains, to_write, wrote, ret, history,
                   storage_failed, nreads, nwrites, nvars>>

\* fetch_multiple_sources with its return inside the loop: the first source
\* is the only one fetched
ReturnSourceEarly ==
    /\ pc = "fetch_return"
    /\ url_idx >= 1
    /\ fetched_domains' = fetched_domains \cup domains
    /\ fetches_done' = fetches_done + 1
    /\ domains' = {}
    /\ nread' = 0
    /\ failed' = FALSE
    /\ url_idx' = NumSources
    /\ pc' = "merge"
    /\ UNCHANGED <<file_exists, file, cycle, persisted_domains,
                   allowlist_domains, sanitized_existing, removed_existing,
                   filtered_fetched, skipped, new_domains, final_domains,
                   to_write, wrote, ret, history, logged, storage_failed,
                   nreads, nwrites, nvars>>

\* lines 82-83: one source returned; aggregated |= its set, next url
ReturnSource ==
    /\ pc = "fetch_return"
    /\ url_idx >= 1
    /\ fetched_domains' = fetched_domains \cup domains
    /\ fetches_done' = fetches_done + 1
    /\ domains' = {}
    /\ nread' = 0
    /\ failed' = FALSE
    /\ IF url_idx < NumSources
       THEN url_idx' = url_idx + 1 /\ pc' = "fetch"
       ELSE url_idx' = url_idx /\ pc' = "merge"
    /\ UNCHANGED <<file_exists, file, cycle, persisted_domains,
                   allowlist_domains, sanitized_existing, removed_existing,
                   filtered_fetched, skipped, new_domains, final_domains,
                   to_write, wrote, ret, history, logged, storage_failed,
                   nreads, nwrites, nvars>>

\* process_sources without the outage guard and without the comparison of
\* line 127: every cycle rewrites the file
MergeAlwaysWrite ==
    /\ pc = "merge"
    /\ filtered_fetched' = apply_allowlist(fetched_domains, allowlist_domains)[1]
    /\ skipped' = apply_allowlist(fetched_domains, allowlist_domains)[2]
    /\ logged' = logged \cup (IF skipped' # 0 THEN {"skipped"} ELSE {})
    /\ new_domains' = filtered_fetched' \ sanitized_existing
    /\ final_domains' = sanitized_existing \cup filtered_fetched'
    /\ pc' = "open"
    /\ UNCHANGED <<file_exists, file, cycle, persisted_domains,
                   allowlist_domains, sanitized_existing, removed_existing,
                   fetched_domains, fetchvars, to_write, wrote, ret, history,
                   storage_failed, nreads, nwrites, fetches_done, nvars>>

\* process_sources with line 127 testing new_domains instead of comparing
\* the sets
MergeWriteIfNew ==
    /\ pc = "merge"
    /\ LET ff == apply_allowlist(fetched_domains, allowlist_domains)[1]
           sk == apply_allowlist(fetched_domains, allowlist_domains)[2]
           lg == logged \cup (IF sk # 0 THEN {"skipped"} ELSE {})
       IN  /\ filtered_fetched' = ff
           /\ skipped' = sk
           /\ IF ff = {} /\ removed_existing = 0
              THEN /\ logged' = lg \cup {"no_fetch"}
                   /\ ret' = 0
                   /\ pc' = "sleep"
                   /\ UNCHANGED <<new_domains, final_domains>>
              ELSE /\ new_domains' = ff \ sanitized_existing
                   /\ final_domains' = sanitized_existing \cup ff
                   /\ IF new_domains' # {}
                      THEN /\ pc' = "open"
                           /\ ret' = ret
                           /\ logged' = lg
                      ELSE /\ pc' = "sleep"
                           /\ ret' = Cardinality(new_domains')
                           /\ logged' = lg \cup {"no_new"}
    /\ UNCHANGED <<file_exists, file, cycle, persisted_domains,
                   allowlist_domains, sanitized_existing, removed_existing,
                   fetched_domains, fetchvars, to_write, wrote, history,
                   storage_failed, nreads, nwrites, fetches_done, nvars>>

\* lines 116-127 and 133-135: filter the fetched set, the outage guard, the
\* merge and the decision to write
Merge ==
    /\ pc = "merge"
    /\ LET ff == apply_allowlist(fetched_domains, allowlist_domains)[1]
           sk == apply_allowlist(fetched_domains, allowlist_domains)[2]
           lg == logged \cup (IF sk # 0 THEN {"skipped"} ELSE {})
       IN  /\ filtered_fetched' = ff
           /\ skipped' = sk
           /\ IF ff = {} /\ removed_existing = 0
              THEN /\ logged' = lg \cup {"no_fetch"}
                   /\ ret' = 0
                   /\ pc' = "sleep"
                   /\ UNCHANGED <<new_domains, final_domains>>
              ELSE /\ new_domains' = ff \ sanitized_existing
                   /\ final_domains' = sanitized_existing \cup ff
                   /\ IF final_domains' # persisted_domains
                      THEN /\ pc' = "open"
                           /\ ret' = ret
                           /\ logged' = lg
                      ELSE /\ pc' = "sleep"
                           /\ ret' = Cardinality(new_domains')
                           /\ logged' = lg \cup {"no_new"}
    /\ UNCHANGED <<file_exists, file, cycle, persisted_domains,
                   allowlist_domains, sanitized_existing, removed_existing,
                   fetched_domains, fetchvars, to_write, wrote, history,
                   storage_failed, nreads, nwrites, fetches_done, nvars>>

\* write_domains opening the file with "a" instead of "w"
OpenWriteAppend ==
    /\ pc = "open"
    /\ file_exists' = TRUE
    /\ file' = file
    /\ to_write' = Sorted(final_domains)
    /\ wrote' = TRUE
    /\ nwrites' = nwrites + 1
    /\ pc' = "write"
    /\ UNCHANGED <<cycle, locals, fetchvars, ret, history, logged,
                   storage_failed, nreads, fetches_done, nvars>>

\* line 97: open(output_path, "w") creates or truncates the file
OpenWrite ==
    /\ pc = "open"
    /\ file_exists' = TRUE
    /\ file' = <<>>
    /\ to_write' = Sorted(final_domains)
    /\ wrote' = TRUE
    /\ nwrites' = nwrites + 1
    /\ pc' = "write"
    /\ UNCHANGED <<cycle, locals, fetchvars, ret, history, logged,
                   storage_failed, nreads, fetches_done, nvars>>

\* line 97: open() raises OSError before it touched the file
OpenFail ==
    /\ pc = "open"
    /\ storage_failed' = "write"
    /\ pc' = "crashed"
    /\ UNCHANGED <<file_exists, file, cycle, locals, fetchvars, to_write,
                   wrote, ret, history, logged, nreads, nwrites, fetches_done,
                   nvars>>

\* lines 98-99: one more domain is written
WriteLine ==
    /\ pc = "write"
    /\ to_write # <<>>
    /\ file' = Append(file, Head(to_write))
    /\ to_write' = Tail(to_write)
    /\ UNCHANGED <<file_exists, pc, cycle, locals, fetchvars, wrote, ret,
                   history, aux, nvars>>

\* lines 98-99: file.write raises OSError; the with block closes the file
\* with what was written so far and the error leaves process_sources
WriteFail ==
    /\ pc = "write"
    /\ to_write # <<>>
    /\ storage_failed' = "write"
    /\ pc' = "crashed"
    /\ UNCHANGED <<file_exists, file, cycle, locals, fetchvars, to_write,
                   wrote, ret, history, logged, nreads, nwrites, fetches_done,
                   nvars>>

\* CloseWrite with `if removed_existing` written for `elif removed_existing`
CloseWriteBothLogs ==
    /\ pc = "write"
    /\ to_write = <<>>
    /\ logged' = logged
                 \cup (IF new_domains # {} THEN {"added"} ELSE {})
                 \cup (IF removed_existing # 0 THEN {"refreshed"} ELSE {})
    /\ ret' = Cardinality(new_domains)
    /\ pc' = "sleep"
    /\ UNCHANGED <<file_exists, file, cycle, locals, fetchvars, to_write,
                   wrote, history, storage_failed, nreads, nwrites,
                   fetches_done, nvars>>

\* lines 129-135: the with block ends, one of the two messages is logged and
\* process_sources returns len(new_domains)
CloseWrite ==
    /\ pc = "write"
    /\ to_write = <<>>
    /\ logged' = logged \cup
                 (IF new_domains # {} THEN {"added"}
                  ELSE IF removed_existing # 0 THEN {"refreshed"} ELSE {})
    /\ ret' = Cardinality(new_domains)
    /\ pc' = "sleep"
    /\ UNCHANGED <<file_exists, file, cycle, locals, fetchvars, to_write,
                   wrote, history, storage_failed, nreads, nwrites,
                   fetches_done, nvars>>

(***************************************************************************)
(* monitor_sources                                                         *)
(***************************************************************************)
\* lines 141-146: time.sleep returns and the loop calls process_sources again
\* (line 142 drops the value the previous call returned); the locals of the
\* call that returned are gone
NextCycle ==
    /\ pc = "sleep"
    /\ cycle < MaxCycles
    /\ cycle' = cycle + 1
    /\ pc' = "start"
    /\ start_exists' = file_exists
    /\ start_file' = file
    /\ persisted_domains' = {}
    /\ allowlist_domains' = {}
    /\ sanitized_existing' = {}
    /\ removed_existing' = 0
    /\ fetched_domains' = {}
    /\ filtered_fetched' = {}
    /\ skipped' = 0
    /\ new_domains' = {}
    /\ final_domains' = {}
    /\ url_idx' = 0
    /\ domains' = {}
    /\ nread' = 0
    /\ failed' = FALSE
    /\ to_write' = <<>>
    /\ wrote' = FALSE
    /\ ret' = 0
    /\ logged' = {}
    /\ nreads' = 0
    /\ nwrites' = 0
    /\ fetches_done' = 0
    /\ UNCHANGED <<file_exists, file, storage_failed, nvars>>

Sleep ==
    /\ NextCycle
    /\ UNCHANGED <<prev_allow, prev_fetched>>

\* Sleep, with the sets the two fetches of the cycle that returned gave kept
\* for comparison with those of the next cycle
SleepRecording ==
    /\ NextCycle
    /\ prev_allow' = allowlist_domains
    /\ prev_fetched' = fetched_domains

\* Interrupt without the except clause of the main block: a KeyboardInterrupt
\* raised inside process_sources ends the program with a traceback
InterruptUncaughtInCycle ==
    /\ pc \notin {"stopped", "crashed"}
    /\ logged' = IF pc = "sleep" THEN logged \cup {"stopped"} ELSE logged
    /\ pc' = "stopped"
    /\ UNCHANGED <<file_exists, file, cycle, locals, fetchvars, to_write,
                   wrote, ret, history, storage_failed, nreads, nwrites,
                   fetches_done, nvars>>

\* KeyboardInterrupt, during the sleep (lines 147-149: logged, break) or at
\* any point of a cycle (lines 155-156: it leaves monitor_sources and the
\* main block logs it); either way the program ends
Interrupt ==
    /\ pc \notin {"stopped", "crashed"}
    /\ logged' = logged \cup {"stopped"}
    /\ pc' = "stopped"
    /\ UNCHANGED <<file_exists, file, cycle, locals, fetchvars, to_write,
                   wrote, ret, history, storage_failed, nreads, nwrites,
                   fetches_done, nvars>>

Next ==
    \/ Load
    \/ ReadFail
    \/ FetchLine
    \/ FetchEnd
    \/ FetchFail
    \/ ReturnAllowlist
    \/ ReturnSource
    \/ Merge
    \/ OpenWrite
    \/ OpenFail
    \/ WriteLine
    \/ WriteFail
    \/ CloseWrite
    \/ Sleep
    \/ Interrupt

Spec == Init /\ [][Next]_vars

\* the same program, with the inputs of the previous cycle recorded
NextTwice ==
    \/ Load
    \/ ReadFail
    \/ FetchLine
    \/ FetchEnd
    \/ FetchFail
    \/ ReturnAllowlist
    \/ ReturnSource
    \/ Merge
    \/ OpenWrite
    \/ OpenFail
    \/ WriteLine
    \/ WriteFail
    \/ CloseWrite
    \/ SleepRecording
    \/ Interrupt

SpecTwice == Init /\ [][NextTwice]_vars

(***************************************************************************)
(* Properties of the cycle.                                                *)
(***************************************************************************)
\* the domain set a reader of the output file gets: its lines, normalised
FileDomains == load_existing_domains(file_exists, file)

\* the domain set the file held when the cycle started
StartDomains == load_existing_domains(start_exists, start_file)

\* process_sources has returned
Returned == pc = "sleep"

\* the non-empty values normalize_domain returns on the lines of the model
NormalizedValues == {normalize_domain(r) : r \in RawLines} \ {<<>>}

\* sorted ascending without duplicates, one normalize_domain value per line
Canonical(lines) ==
    /\ \A i \in 1..(Len(lines) - 1) : StrLess(lines[i], lines[i + 1])
    /\ \A i \in 1..Len(lines) : lines[i] \in NormalizedValues

\* C1 (as claimed): a cycle that gets the same allowlist and the same source
\* domains as the cycle before it leaves the domain set of the file as that
\* cycle left it and returns 0.  The cycle depends on the responses only
\* through the two fetched sets, so equal responses are equal sets.
C1_Idempotent ==
    (Returned /\ cycle > 1 /\ allowlist_domains = prev_allow
        /\ fetched_domains = prev_fetched)
    => (FileDomains = StartDomains /\ ret = 0)

\* C2: a cycle whose sources yield no domain and whose allowlist removes no
\* persisted domain does not write: the file is the one the cycle started
\* with and the cycle returns 0.
C2_NoLossOnOutage ==
    (Returned /\ fetched_domains = {} /\ removed_existing = 0)
    => (~wrote /\ file_exists = start_exists /\ file = start_file /\ ret = 0)

\* C2 witness: an outage cycle returned while the file held domains
C2_Witness ==
    /\ Returned
    /\ fetched_domains = {}
    /\ removed_existing = 0
    /\ persisted_domains # {}
    /\ allowlist_domains # {}

\* C3 (as claimed): after a cycle the file holds no domain of the allowlist
\* fetched in that cycle.
C3_AllowlistExcluded ==
    Returned => FileDomains \cap allowlist_domains = {}

\* C4 (as claimed): after a cycle the domain set of the file is
\* (persisted UNION fetched) MINUS allowlist, and it is no smaller than the
\* sanitized persisted set or the filtered fetched set.
C4_UnionCorrect ==
    Returned =>
        /\ FileDomains = (persisted_domains \cup fetched_domains) \ allowlist_domains
        /\ Cardinality(FileDomains) >= Cardinality(persisted_domains \ allowlist_domains)
        /\ Cardinality(FileDomains) >= Cardinality(fetched_domains \ allowlist_domains)

\* C5 (as claimed): at every step the file is either the complete content it
\* had before the write or the complete new final set (a file that does not
\* exist has no content).
C5_NeverPartial ==
    \/ file = start_file
    \/ wrote /\ file = Sorted(final_domains)

\* C7: apply_allowlist with an empty allowlist returns the candidates
\* unchanged and the count 0, and with no candidates it returns the empty set
\* and the count 0; checked on both of its calls in process_sources.
C7_AllowlistSafety ==
    /\ (url_idx >= 1 /\ allowlist_domains = {})
        => (sanitized_existing = persisted_domains /\ removed_existing = 0)
    /\ (url_idx >= 1 /\ persisted_domains = {})
        => (sanitized_existing = {} /\ removed_existing = 0)
    /\ (pc \in {"open", "write", "sleep"} /\ allowlist_domains = {})
        => (filtered_fetched = fetched_domains /\ skipped = 0)
    /\ (pc \in {"open", "write", "sleep"} /\ fetched_domains = {})
        => (filtered_fetched = {} /\ skipped = 0)

\* C7 witness: both calls were made with an empty allowlist and non-empty
\* candidate sets
C7_Witness ==
    /\ Returned
    /\ allowlist_domains = {}
    /\ Cardinality(persisted_domains) >= 1
    /\ Cardinality(fetched_domains) >= 2

\* C8 (as claimed): a fetch that fails returns the empty set
C8_FailedFetchEmpty ==
    (pc = "fetch_return" /\ failed) => domains = {}

\* C9 (as claimed): the value returned is the number of domains the file
\* holds after the cycle that the set loaded at its start did not hold.
C9_AddedCount ==
    Returned => ret = Cardinality(FileDomains \ persisted_domains)

C12_GracefulStop ==
    /\ (pc = "start" /\ cycle = 1 /\ nreads = 0)
    /\ [](pc \notin {"stopped", "crashed"} => ENABLED Interrupt)
    /\ [](pc = "stopped" => "stopped" \in logged)
    /\ [][pc = "stopped" => UNCHANGED <<pc, cycle, file, file_exists, nreads,
                                        nwrites, fetches_done>>]_vars

\* C12 witness: the program was stopped in the middle of the write of its
\* second cycle
C12_Witness ==
    /\ pc = "stopped"
    /\ "stopped" \in logged
    /\ cycle > 1
    /\ wrote
    /\ to_write # <<>>

\* C13: once a read or a write of the output file has failed the program has
\* left process_sources with the error and takes no further step; a missing
\* file is no failure of the read and loads as the empty set.
C13_StorageFailureFatal ==
    /\ [](storage_failed # "none" => pc = "crashed")
    /\ [](~start_exists => (storage_failed # "read" /\ persisted_domains = {}))
    /\ [][pc = "crashed" => UNCHANGED cvars]_vars

\* C13 witness: the read of the second cycle failed
C13_Witness ==
    /\ pc = "crashed"
    /\ storage_failed = "read"
    /\ cycle > 1
    /\ start_file # <<>>

\* the outage guard of line 120 fired
GuardFired == filtered_fetched = {} /\ removed_existing = 0

\* C14: a cycle writes the file if and only if the outage guard did not fire
\* and the merged set differs from the persisted set loaded at its start;
\* every other cycle leaves the file untouched.
C14_WriteCondition ==
    Returned =>
        /\ wrote <=> (~GuardFired
                      /\ sanitized_existing \cup filtered_fetched # persisted_domains)
        /\ ~wrote => (nwrites = 0 /\ file = start_file /\ file_exists = start_exists)

\* C14 witness: a cycle wrote although it fetched nothing new, because the
\* sets differ
C14_Witness ==
    /\ Returned
    /\ wrote
    /\ new_domains = {}
    /\ filtered_fetched # {}

\* C15 (as claimed): a cycle whose allowlist holds a persisted domain rewrites
\* the file without the allowlisted domains, also when every source fails,
\* and returns 0 when nothing new was fetched.
C15_RemovalSurvivesOutage ==
    (Returned /\ persisted_domains \cap allowlist_domains # {}) =>
        /\ wrote
        /\ FileDomains \cap allowlist_domains = {}
        /\ (filtered_fetched \ persisted_domains = {}) => ret = 0

\* C16: a cycle loads the file once and opens it for writing at most once,
\* the write comes after the load, the allowlist fetch and the fetches of all
\* sources, and a cycle starts with none of the sets of the cycle before.
C16_IoOrdering ==
    /\ nreads <= 1
    /\ nwrites <= 1
    /\ Returned => nreads = 1
    /\ nwrites = 1 => (nreads = 1 /\ fetches_done = NumSources + 1)
    /\ pc = "start" =>
        /\ persisted_domains = {} /\ allowlist_domains = {}
        /\ sanitized_existing = {} /\ fetched_domains = {}
        /\ filtered_fetched = {} /\ new_domains = {} /\ final_domains = {}
        /\ domains = {} /\ to_write = <<>>

\* C16 witness: the second cycle wrote the file
C16_Witness ==
    /\ Returned
    /\ cycle > 1
    /\ nwrites = 1
    /\ fetched_domains # {}

\* C17 (as claimed): the file a cycle wrote loads as the set that was written
C17_RoundTrip ==
    (Returned /\ wrote) => load_existing_domains(TRUE, file) = final_domains

\* C18: a cycle that wrote the file logged exactly one of "Added N new
\* disposable domains", with N >= 1, and "Output refreshed after removing
\* allowlisted domains"; no file is written with no new domain and no removal.
C18_NoSilentWrite ==
    (Returned /\ wrote) =>
        /\ ("added" \in logged) # ("refreshed" \in logged)
        /\ "added" \in logged => (Cardinality(new_domains) >= 1 /\ ret >= 1)
        /\ "refreshed" \in logged => removed_existing >= 1
        /\ new_domains # {} \/ removed_existing >= 1

\* C18 witness: a cycle wrote new domains and removed allowlisted ones
C18_Witness ==
    /\ Returned
    /\ wrote
    /\ new_domains # {}
    /\ removed_existing >= 1
    /\ "added" \in logged

(***************************************************************************)
(* Specification of the normaliser alone: one raw entry, then its result.  *)
(***************************************************************************)
\* all strings over Alphabet of length at most n
RECURSIVE StringsUpTo(_)
StringsUpTo(n) ==
    IF n = 0 THEN {<<>>}
    ELSE LET shorter == StringsUpTo(n - 1)
         IN  shorter \cup {Append(s, c) : s \in shorter, c \in Alphabet}

NormInit ==
    /\ entry \in StringsUpTo(MaxLen)
    /\ base = <<>>
    /\ result = <<>>
    /\ normalized = FALSE
    /\ file_exists = FALSE
    /\ file = <<>>
    /\ pc = "normalize"
    /\ cycle = 1
    /\ LocalsInit
    /\ start_exists = FALSE
    /\ start_file = <<>>
    /\ prev_allow = {}
    /\ prev_fetched = {}

\* normalize_domain(entry)
Normalize ==
    /\ pc = "normalize"
    /\ ~normalized
    /\ result' = normalize_domain(entry)
    /\ normalized' = TRUE
    /\ UNCHANGED <<entry, base, cvars>>

NormNext == Normalize

SpecNorm == NormInit /\ [][NormNext]_vars

\* C6 (as claimed): a non-empty result of normalize_domain is lowercase, has
\* no leading or trailing whitespace, no '#' and no '@'.
C6_DomainInvariant ==
    (normalized /\ result # <<>>) =>
        /\ LowerStr(result) = result
        /\ ~IsSpace(result[1])
        /\ ~IsSpace(result[Len(result)])
        /\ ~Contains(result, "#")
        /\ ~Contains(result, "@")

(***************************************************************************)
(* Specification of the normaliser on the representations of a domain:     *)
(* the entry is  blanks [local-part @] [label .]* domain blanks,  or any   *)
(* string as in SpecNorm.                                                  *)
(***************************************************************************)
\* the labels domains, sub-domains and local parts are made of
Labels == {<<"a">>, <<"A">>, <<"b">>, <<"A", "b">>}

\* the two-label domains, in any letter case
TwoLabelDomains == {l1 \o <<".">> \o l2 : l1 \in Labels, l2 \in Labels}

\* the local parts put before '@'
LocalParts == {<<"a">>, <<"A", ".", "b">>}

\* n blanks
Blanks(n) == [i \in 1..n |-> " "]

\* the labels of subs, each followed by a dot
RECURSIVE DottedPrefix(_)
DottedPrefix(subs) ==
    IF subs = <<>> THEN <<>>
    ELSE Head(subs) \o <<".">> \o DottedPrefix(Tail(subs))

\* the entries formed from the domain d
Representations(d) ==
    {Blanks(lead) \o addr \o DottedPrefix(subs) \o d \o Blanks(trail) :
        lead \in 0..MaxPad, trail \in 0..MaxPad,
        addr \in {<<>>} \cup {lp \o <<"@">> : lp \in LocalParts},
        subs \in SeqsUpTo(Labels, MaxSub)}

CanonInit ==
    /\ \/ /\ base \in TwoLabelDomains
          /\ entry \in Representations(base)
       \/ /\ base = <<>>
          /\ entry \in StringsUpTo(MaxLen)
    /\ result = <<>>
    /\ normalized = FALSE
    /\ file_exists = FALSE
    /\ file = <<>>
    /\ pc = "normalize"
    /\ cycle = 1
    /\ LocalsInit
    /\ start_exists = FALSE
    /\ start_file = <<>>
    /\ prev_allow = {}
    /\ prev_fetched = {}

SpecCanon == CanonInit /\ [][NormNext]_vars

\* C11: every entry formed from a two-label domain d by changing letter case,
\* blanks around the entry, a local part and '@' before the host and extra
\* sub-domain labels before d is mapped to the lowercase form of d; and no
\* result of normalize_domain, on any entry, has more than two labels.
C11_CanonicalForm ==
    normalized =>
        /\ base # <<>> => result = LowerStr(base)
        /\ Len(SplitDots(result)) <= 2

\* C11 witness: an entry with blanks, a local part, a sub-domain label and
\* upper-case letters was normalised
C11_Witness ==
    /\ normalized
    /\ base # <<>>
    /\ LowerStr(base) # base
    /\ Contains(entry, "@")
    /\ IsSpace(entry[1])
    /\ IsSpace(entry[Len(entry)])
    /\ Len(SplitDots(AfterFirst(entry, "@"))) = 3

====
